---- MODULE Spec2Model ----
(***************************************************************************)
(* Model of the diarization pipeline of handyXmutter: diarize_audio        *)
(* (src-tauri/src/diarize.rs), transcribe_chunked                          *)
(* (src-tauri/src/commands/video.rs) and the transcribe_meeting and        *)
(* diarize_entry commands (src-tauri/src/commands/meeting.rs).             *)
(*                                                                         *)
(* Audio buffers are represented by their length, texts by sequences of    *)
(* characters, embeddings by integer vectors of dimension 2.  Cosine       *)
(* similarities are compared exactly (no floating point rounding).         *)
(* The journal store (SQLite) is taken to be reliable: its statements      *)
(* always succeed.                                                         *)
(***************************************************************************)
EXTENDS Integers, Sequences, FiniteSets, TLC

(***************************************************************************)
(* Bounds of the model.                                                    *)
(***************************************************************************)
MaxRegions == 4
MaxSpeakersCfg == 3
MaxChunks == 3
PMaxRegions == 2
MaxSamples == 6
MaxChannels == 3
MaxSaved == 2
MaxLines == 2

(***************************************************************************)
(* Inputs: embeddings, thresholds.                                         *)
(* The embeddings lie in a half plane (x > 0, or x = 0 and y > 0) so that  *)
(* no running mean is the zero vector (cosine similarity with the zero     *)
(* vector is undefined).  They differ in direction and in norm.            *)
(* A threshold is a rational <<p, q>> with q > 0.                          *)
(***************************************************************************)
Embeddings == {<<1, 0>>, <<0, 1>>, <<1, 1>>, <<3, -2>>}
Thresholds == {<<1, 2>>, <<0, 1>>, <<3, 2>>}
DefaultThreshold == <<1, 2>>

SeqsUpTo(S, n) == UNION {[1..k -> S] : k \in 0..n}

(***************************************************************************)
(* Cosine similarity.  A similarity is kept as <<d, m>> standing for       *)
(* d / sqrt(m), m > 0, and two similarities are compared by cross          *)
(* multiplication of squares, by sign.                                     *)
(***************************************************************************)
Dot(a, b) == a[1] * b[1] + a[2] * b[2]

cosine_similarity(a, b) == <<Dot(a, b), Dot(a, a) * Dot(b, b)>>

SimLess(s, t) ==
    IF s[1] < 0 /\ t[1] >= 0 THEN TRUE
    ELSE IF s[1] >= 0 /\ t[1] < 0 THEN FALSE
    ELSE IF s[1] >= 0 THEN s[1] * s[1] * t[2] < t[1] * t[1] * s[2]
    ELSE s[1] * s[1] * t[2] > t[1] * t[1] * s[2]

ThresholdSim(th) == <<th[1], th[2] * th[2]>>

(***************************************************************************)
(* SpeakerRegistry (EmbeddingManager of the clustering crate).  The        *)
(* registry is the sequence of speakers in creation order: speaker id i    *)
(* is at position i + 1.  A centroid is the mean sum / n of the n          *)
(* embeddings assigned to the speaker; centroid + (e - centroid) / (n+1)   *)
(* is (sum + e) / (n + 1).  Cosine similarity does not depend on the       *)
(* positive factor 1 / n, so it is computed on sum.                        *)
(***************************************************************************)
EmbeddingManager_new == << >>

get_all_speakers(manager) == manager

\* position of the speaker with the highest similarity, lowest id on ties
BestMatch(manager, e) ==
    CHOOSE i \in 1..Len(manager) :
        \A j \in 1..Len(manager) :
            LET si == cosine_similarity(manager[i].sum, e)
                sj == cosine_similarity(manager[j].sum, e)
            IN  /\ ~SimLess(si, sj)
                /\ (j < i => SimLess(sj, si))

UpdateCentroid(manager, i, e) ==
    [manager EXCEPT ![i] = [sum |-> <<@.sum[1] + e[1], @.sum[2] + e[2]>>,
                            n |-> @.n + 1]]

\* returns [some, id, manager]
search_speaker(manager, e, th) ==
    IF /\ Len(manager) > 0
       /\ ~SimLess(cosine_similarity(manager[BestMatch(manager, e)].sum, e),
                   ThresholdSim(th))
    THEN LET i == BestMatch(manager, e)
         IN  [some |-> TRUE, id |-> i - 1, manager |-> UpdateCentroid(manager, i, e)]
    ELSE [some |-> TRUE, id |-> Len(manager),
          manager |-> Append(manager, [sum |-> e, n |-> 1])]

get_best_speaker_match(manager, e) ==
    IF Len(manager) = 0
    THEN [some |-> FALSE, id |-> 0, manager |-> manager]
    ELSE LET i == BestMatch(manager, e)
         IN  [some |-> TRUE, id |-> i - 1, manager |-> UpdateCentroid(manager, i, e)]

unwrap_or_Mutant(opt, d) == d
unwrap_or(opt, d) == IF opt.some THEN opt.id ELSE d

Some(x) == [some |-> TRUE, v |-> x]
None == [some |-> FALSE, v |-> 0]
\* Result values; "at" is the chunk number an error message names (0: none)
Ok(x) == [ok |-> TRUE, v |-> x, err |-> "", at |-> 0]
Err(m) == [ok |-> FALSE, v |-> << >>, err |-> m, at |-> 0]
ErrAt(m, k) == [ok |-> FALSE, v |-> << >>, err |-> m, at |-> k]

(***************************************************************************)
(* What the segmentation capability hands to diarize_audio: either an      *)
(* error, or an iterator of items, each an error or a segment with its     *)
(* bounds in seconds, the length of its samples and the outcome of the     *)
(* embedding computation on these samples.                                 *)
(***************************************************************************)
EmbOutcomes == [ok : {TRUE}, v : Embeddings] \cup {[ok |-> FALSE, v |-> <<0, 0>>]}

ItemKinds(lens) ==
    [ok : {TRUE}, len : lens, emb : EmbOutcomes]
        \cup {[ok |-> FALSE, len |-> 0, emb |-> [ok |-> FALSE, v |-> <<0, 0>>]]}

\* the item at position i of the iterator covers the seconds i - 1 .. i
MkItems(kinds) ==
    [i \in 1..Len(kinds) |->
        [ok |-> kinds[i].ok, start |-> i - 1, end |-> i,
         len |-> kinds[i].len, emb |-> kinds[i].emb]]

SegmentationResults(lens, n) ==
    {[ok |-> FALSE, items |-> << >>]}
        \cup {[ok |-> TRUE, items |-> MkItems(k)] : k \in SeqsUpTo(ItemKinds(lens), n)}

VARIABLES
    max_speakers,   \* diarize_audio: parameter
    threshold,      \* diarize_audio: parameter
    seg_in,         \* outcome of pyannote_rs::get_segments
    extractor_ok,   \* outcome of EmbeddingExtractor::new
    d_pc,           \* position in diarize_audio
    segments,       \* diarize_audio: the segments kept by filter_map
    d_idx,          \* diarize_audio: position of the for loop in segments
    manager,        \* diarize_audio: the EmbeddingManager
    result,         \* diarize_audio: the RawDiarizedSegments pushed so far
    d_ret,          \* diarize_audio: the value returned
    c_len,          \* transcribe_chunked: samples.len()
    c_pc,           \* position in transcribe_chunked
    c_st,           \* transcribe_chunked: loop index, parts, calls made, return value
    c_outs,         \* the outcomes of the calls of the transcription capability
    p_cmd,          \* the command that runs: transcribe_meeting or diarize_entry
    p_in,           \* what the run finds: entry, audio file, WAV, capabilities, parameters
    p_pc,           \* position in the command
    events,         \* the notifications emitted on the status channel of the command
    raw_segments,   \* the value of diarize_audio
    p_i,            \* position of the for loop in raw_segments
    diarized_segments, \* the DiarizedSegments pushed so far
    flat_lines,     \* transcribe_meeting: the labelled lines pushed so far
    t_log,          \* the calls of transcribe_chunked: region, calls, value
    db_segments,    \* table meeting_segments: entry id -> rows in insertion order
    db_entries,     \* table journal_entries: entry id -> row
    p_ret,          \* the value returned by the command
    cancel,         \* a cancellation was requested during the run
    n_raw,          \* normalisation: raw_samples, interleaved
    n_channels,     \* normalisation: spec.channels
    n_rate,         \* normalisation: spec.sample_rate
    n_pc,           \* position in the normalisation
    n_mono,         \* normalisation: mono_samples
    n_out,          \* normalisation: samples
    s_pc,           \* save_meeting_segments: position of each of two overlapping calls
    s_out,          \* save_meeting_segments: the segments each call was given
    s_k,            \* save_meeting_segments: position of each call's for loop
    y_in,           \* download_audio: what the call finds and what yt-dlp does
    y_pc,           \* position in download_audio
    y_lines,        \* download_audio: the lines of stdout not read yet
    y_cancel,       \* download_audio: cancel_flag
    y_progress,     \* download_audio: the percentages emitted on ytdlp-audio-progress
    y_ret           \* download_audio: the value returned

dvars == <<max_speakers, threshold, seg_in, extractor_ok, d_pc, segments,
           d_idx, manager, result, d_ret>>
cvars == <<c_len, c_pc, c_st, c_outs>>
pvars == <<p_cmd, p_in, p_pc, events, raw_segments, p_i, diarized_segments,
           flat_lines, t_log, db_segments, db_entries, p_ret, cancel>>
nvars == <<n_raw, n_channels, n_rate, n_pc, n_mono, n_out>>
svars == <<s_pc, s_out, s_k>>
yvars == <<y_in, y_pc, y_lines, y_cancel, y_progress, y_ret>>
vars == <<dvars, cvars, pvars, nvars, svars, yvars>>

NoRet == [ok |-> FALSE, v |-> << >>, err |-> "running", at |-> 0]

\* filter_map over the iterator: errored items are skipped
RECURSIVE FilterOk(_)
FilterOk_Mutant(items) ==
    IF \A i \in 1..Len(items) : items[i].ok THEN items
    ELSE SubSeq(items, 1, (CHOOSE i \in 1..Len(items) :
                              ~items[i].ok /\ \A j \in 1..(i - 1) : items[j].ok) - 1)
FilterOk(items) ==
    IF items = << >> THEN << >>
    ELSE IF items[1].ok THEN <<items[1]>> \o FilterOk(Tail(items))
    ELSE FilterOk(Tail(items))

\* a cap of max_speakers speakers: the branch of diarize_audio on the registry size
AtCap_Mutant(mgr, max) == Len(get_all_speakers(mgr)) > max
AtCap(mgr, max) == Len(get_all_speakers(mgr)) >= max

\* "Assign speaker": [id, manager]
AssignSpeaker_Mutant(mgr, e, max, th) ==
    IF AtCap(mgr, max)
    THEN [id |-> 0, manager |-> mgr]
    ELSE LET r == search_speaker(mgr, e, th)
         IN  [id |-> unwrap_or(r, 0), manager |-> r.manager]
AssignSpeaker(mgr, e, max, th) ==
    IF AtCap(mgr, max)
    THEN LET r == get_best_speaker_match(mgr, e)
         IN  [id |-> unwrap_or(r, 0), manager |-> r.manager]
    ELSE LET r == search_speaker(mgr, e, th)
         IN  [id |-> unwrap_or(r, 0), manager |-> r.manager]

RawDiarizedSegment(seg, speaker_id) ==
    [speaker |-> Some(speaker_id), start_ms |-> seg.start * 1000,
     end_ms |-> seg.end * 1000, samples |-> seg.len]

\* get_segments failed
DSegmentationFailed ==
    /\ UNCHANGED <<cvars, pvars, nvars, svars, yvars>>
    /\ d_pc = "start"
    /\ ~seg_in.ok
    /\ d_ret' = Err("Segmentation failed")
    /\ d_pc' = "done"
    /\ UNCHANGED <<max_speakers, threshold, seg_in, extractor_ok, segments,
                   d_idx, manager, result>>

\* get_segments succeeded, no segment is left after the errored ones are skipped
DNoSegments ==
    /\ UNCHANGED <<cvars, pvars, nvars, svars, yvars>>
    /\ d_pc = "start"
    /\ seg_in.ok
    /\ FilterOk(seg_in.items) = << >>
    /\ segments' = << >>
    /\ d_ret' = Ok(<< >>)
    /\ d_pc' = "done"
    /\ UNCHANGED <<max_speakers, threshold, seg_in, extractor_ok, d_idx,
                   manager, result>>

\* segments found, the embedding extractor cannot be created
DExtractorFailed ==
    /\ UNCHANGED <<cvars, pvars, nvars, svars, yvars>>
    /\ d_pc = "start"
    /\ seg_in.ok
    /\ FilterOk(seg_in.items) # << >>
    /\ ~extractor_ok
    /\ segments' = FilterOk(seg_in.items)
    /\ d_ret' = Err("Failed to create embedding extractor")
    /\ d_pc' = "done"
    /\ UNCHANGED <<max_speakers, threshold, seg_in, extractor_ok, d_idx,
                   manager, result>>

\* segments found, extractor and manager created
DSegmented ==
    /\ UNCHANGED <<cvars, pvars, nvars, svars, yvars>>
    /\ d_pc = "start"
    /\ seg_in.ok
    /\ FilterOk(seg_in.items) # << >>
    /\ extractor_ok
    /\ segments' = FilterOk(seg_in.items)
    /\ manager' = EmbeddingManager_new
    /\ result' = << >>
    /\ d_idx' = 1
    /\ d_pc' = "loop"
    /\ UNCHANGED <<max_speakers, threshold, seg_in, extractor_ok, d_ret>>

\* one iteration of the for loop: the embedding is computed and clustered
DAssign ==
    /\ UNCHANGED <<cvars, pvars, nvars, svars, yvars>>
    /\ d_pc = "loop"
    /\ d_idx <= Len(segments)
    /\ segments[d_idx].emb.ok
    /\ LET a == AssignSpeaker(manager, segments[d_idx].emb.v, max_speakers, threshold)
       IN  /\ manager' = a.manager
           /\ result' = Append(result, RawDiarizedSegment(segments[d_idx], a.id))
    /\ d_idx' = d_idx + 1
    /\ UNCHANGED <<max_speakers, threshold, seg_in, extractor_ok, d_pc,
                   segments, d_ret>>

\* one iteration of the for loop: the embedding computation fails
DEmbeddingFailed ==
    /\ UNCHANGED <<cvars, pvars, nvars, svars, yvars>>
    /\ d_pc = "loop"
    /\ d_idx <= Len(segments)
    /\ ~segments[d_idx].emb.ok
    /\ d_ret' = Err("Embedding computation failed")
    /\ d_pc' = "done"
    /\ UNCHANGED <<max_speakers, threshold, seg_in, extractor_ok, segments,
                   d_idx, manager, result>>

\* the loop is over
DReturn ==
    /\ UNCHANGED <<cvars, pvars, nvars, svars, yvars>>
    /\ d_pc = "loop"
    /\ d_idx > Len(segments)
    /\ d_ret' = Ok(result)
    /\ d_pc' = "done"
    /\ UNCHANGED <<max_speakers, threshold, seg_in, extractor_ok, segments,
                   d_idx, manager, result>>

DNext ==
    \/ DSegmentationFailed
    \/ DNoSegments
    \/ DExtractorFailed
    \/ DSegmented
    \/ DAssign
    \/ DEmbeddingFailed
    \/ DReturn

(***************************************************************************)
(* transcribe_chunked (commands/video.rs).  A text is a sequence of        *)
(* characters; samples are given by their number, a window of samples by   *)
(* its bounds lo (included) and hi (excluded).                             *)
(***************************************************************************)
\* the two overlapping calls of save_meeting_segments
Runs == {1, 2}

target_rate_Mutant == 16000 \div 2
target_rate == 16000

CHUNK_SIZE == 16000 * 30

Min(a, b) == IF a <= b THEN a ELSE b

Whitespace == {" "}

RECURSIVE trim_start(_)
trim_start(t) ==
    IF t # << >> /\ t[1] \in Whitespace THEN trim_start(Tail(t)) ELSE t

RECURSIVE trim_end(_)
trim_end(t) ==
    IF t # << >> /\ t[Len(t)] \in Whitespace
    THEN trim_end(SubSeq(t, 1, Len(t) - 1)) ELSE t

trim(t) == trim_end(trim_start(t))

RECURSIVE join(_, _)
join(parts, sep) ==
    IF parts = << >> THEN << >>
    ELSE IF Len(parts) = 1 THEN parts[1]
    ELSE parts[1] \o sep \o join(Tail(parts), sep)

\* the texts the transcription capability may return, and its outcomes
Texts == {<< >>, <<" ">>, <<"a">>, <<" ", "a", " ">>, <<"b", " ", "c">>}
TOutcomes == {Ok(t) : t \in Texts} \cup {Err("transcribe")}

\* the lengths of the inputs: around every multiple of CHUNK_SIZE
SampleLens ==
    {n \in {k * CHUNK_SIZE + d : k \in 0..MaxChunks, d \in {-1, 0, 1}} :
        n >= 0 /\ n <= MaxChunks * CHUNK_SIZE}

\* the i-th slice (from 0) of samples.chunks(CHUNK_SIZE)
ChunkWindow_Mutant(len, i) ==
    [lo |-> i * CHUNK_SIZE, hi |-> (i + 1) * CHUNK_SIZE]
ChunkWindow(len, i) ==
    [lo |-> i * CHUNK_SIZE, hi |-> Min((i + 1) * CHUNK_SIZE, len)]

\* chunks() yields a further slice
HasChunk(len, i) == i * CHUNK_SIZE < len

total_chunks(len) == (len + CHUNK_SIZE - 1) \div CHUNK_SIZE

ChunkInit == [i |-> 0, parts |-> << >>, calls |-> << >>, ret |-> NoRet]

\* if !trimmed.is_empty() { parts.push(trimmed) }
PushPart_Mutant(parts, text) == Append(parts, trim(text))
PushPart(parts, text) ==
    IF trim(text) # << >> THEN Append(parts, trim(text)) ELSE parts

\* samples.len() <= CHUNK_SIZE: one call on the whole input, out is its outcome
Direct(st, len, out) ==
    [st EXCEPT !.calls = Append(@, [lo |-> 0, hi |-> len]),
               !.ret = IF out.ok THEN Ok(out.v) ELSE Err("Transcription failed")]

\* one iteration of the for loop over the chunks, out is the outcome of the call
ChunkStep_Mutant(st, len, out) ==
    [st EXCEPT !.calls = Append(@, ChunkWindow(len, st.i)),
               !.parts = IF out.ok THEN PushPart(@, out.v) ELSE @,
               !.i = @ + 1]
ChunkStep(st, len, out) ==
    IF out.ok
    THEN [st EXCEPT !.calls = Append(@, ChunkWindow(len, st.i)),
                    !.parts = PushPart(@, out.v),
                    !.i = @ + 1]
    ELSE [st EXCEPT !.calls = Append(@, ChunkWindow(len, st.i)),
                    !.ret = ErrAt("Transcription failed on chunk", st.i + 1)]

\* Ok(parts.join(" "))
ChunkReturn(st) == [st EXCEPT !.ret = Ok(join(st.parts, <<" ">>))]

\* the number of calls transcribe_chunked makes at most on len samples
MaxCalls(len) == IF len <= CHUNK_SIZE THEN 1 ELSE total_chunks(len)

RECURSIVE ChunkLoop(_, _, _)
ChunkLoop(st, len, outs) ==
    IF st.ret # NoRet THEN st
    ELSE IF ~HasChunk(len, st.i) THEN ChunkReturn(st)
    ELSE ChunkLoop(ChunkStep(st, len, outs[st.i + 1]), len, outs)

\* the whole function, outs[k] being the outcome of the k-th call
transcribe_chunked(len, outs) ==
    IF len <= CHUNK_SIZE THEN Direct(ChunkInit, len, outs[1])
    ELSE ChunkLoop(ChunkInit, len, outs)

CDirect ==
    /\ UNCHANGED <<dvars, pvars, nvars, svars, yvars>>
    /\ c_pc = "start"
    /\ c_len <= CHUNK_SIZE
    /\ \E out \in TOutcomes :
         /\ c_st' = Direct(c_st, c_len, out)
         /\ c_outs' = Append(c_outs, out)
    /\ c_pc' = "done"
    /\ UNCHANGED c_len

CSplit ==
    /\ UNCHANGED <<dvars, pvars, nvars, svars, yvars>>
    /\ c_pc = "start"
    /\ c_len > CHUNK_SIZE
    /\ c_pc' = "loop"
    /\ UNCHANGED <<c_len, c_st, c_outs>>

CChunk ==
    /\ UNCHANGED <<dvars, pvars, nvars, svars, yvars>>
    /\ c_pc = "loop"
    /\ HasChunk(c_len, c_st.i)
    /\ \E out \in TOutcomes :
         /\ out.ok
         /\ c_st' = ChunkStep(c_st, c_len, out)
         /\ c_outs' = Append(c_outs, out)
    /\ c_pc' = IF c_st'.ret # NoRet THEN "done" ELSE "loop"
    /\ UNCHANGED c_len

CChunkFailed ==
    /\ UNCHANGED <<dvars, pvars, nvars, svars, yvars>>
    /\ c_pc = "loop"
    /\ HasChunk(c_len, c_st.i)
    /\ \E out \in TOutcomes :
         /\ ~out.ok
         /\ c_st' = ChunkStep(c_st, c_len, out)
         /\ c_outs' = Append(c_outs, out)
    /\ c_pc' = IF c_st'.ret # NoRet THEN "done" ELSE "loop"
    /\ UNCHANGED c_len

CReturn ==
    /\ UNCHANGED <<dvars, pvars, nvars, svars, yvars>>
    /\ c_pc = "loop"
    /\ ~HasChunk(c_len, c_st.i)
    /\ c_st' = ChunkReturn(c_st)
    /\ c_pc' = "done"
    /\ UNCHANGED <<c_len, c_outs>>

CNext ==
    \/ CDirect
    \/ CSplit
    \/ CChunk
    \/ CChunkFailed
    \/ CReturn

(***************************************************************************)
(* diarize_audio as a function of what the capabilities return.            *)
(***************************************************************************)
RECURSIVE ClusterLoop(_, _, _, _, _, _)
ClusterLoop(segs, idx, mgr, res, max, th) ==
    IF idx > Len(segs) THEN Ok(res)
    ELSE IF ~segs[idx].emb.ok THEN Err("Embedding computation failed")
    ELSE LET a == AssignSpeaker(mgr, segs[idx].emb.v, max, th)
         IN  ClusterLoop(segs, idx + 1, a.manager,
                         Append(res, RawDiarizedSegment(segs[idx], a.id)), max, th)

diarize_audio_Mutant(sin, ext_ok, max, th) ==
    IF ~sin.ok \/ FilterOk(sin.items) = << >> THEN Ok(<< >>)
    ELSE IF ~ext_ok THEN Err("Failed to create embedding extractor")
    ELSE ClusterLoop(FilterOk(sin.items), 1, EmbeddingManager_new, << >>, max, th)
diarize_audio(sin, ext_ok, max, th) ==
    IF ~sin.ok THEN Err("Segmentation failed")
    ELSE IF FilterOk(sin.items) = << >> THEN Ok(<< >>)
    ELSE IF ~ext_ok THEN Err("Failed to create embedding extractor")
    ELSE ClusterLoop(FilterOk(sin.items), 1, EmbeddingManager_new, << >>, max, th)

(***************************************************************************)
(* The commands transcribe_meeting and diarize_entry (commands/meeting.rs) *)
(* on the entry EntryId.  The journal holds a second entry, OtherId.       *)
(***************************************************************************)
EntryId == 1
OtherId == 2

DefaultMaxSpeakers == 6

\* the inputs of a run
PEmbeddings == {<<1, 0>>, <<0, 1>>}
PLens == {0, 1, CHUNK_SIZE + 1}
PEmbOutcomes == [ok : {TRUE}, v : PEmbeddings] \cup {[ok |-> FALSE, v |-> <<0, 0>>]}
PItemKinds ==
    [ok : {TRUE}, len : PLens, emb : PEmbOutcomes]
        \cup {[ok |-> FALSE, len |-> 0, emb |-> [ok |-> FALSE, v |-> <<0, 0>>]]}
PSegmentationResults ==
    {[ok |-> FALSE, items |-> << >>]}
        \cup {[ok |-> TRUE, items |-> MkItems(k)] : k \in SeqsUpTo(PItemKinds, PMaxRegions)}
POutcomes == {Ok(<<"a">>), Ok(<<" ">>), Err("transcribe")}

unwrap_or_value(opt, d) == IF opt.some THEN opt.v ELSE d

DiarizedSegment(seg, text) ==
    [speaker |-> seg.speaker, start_ms |-> seg.start_ms, end_ms |-> seg.end_ms,
     text |-> text]

Digits == <<"0", "1", "2", "3", "4", "5", "6", "7", "8", "9">>

\* format!("[Speaker {}]", s) or "[Unknown]"
speaker_label_Mutant(speaker) ==
    IF speaker.some THEN <<"[Speaker ">> \o <<Digits[speaker.v + 2]>> \o <<"]">>
    ELSE <<"[Unknown]">>
speaker_label(speaker) ==
    IF speaker.some THEN <<"[Speaker ">> \o <<Digits[speaker.v + 1]>> \o <<"]">>
    ELSE <<"[Unknown]">>

\* format!("{} {}", speaker_label, trimmed)
flat_line(speaker, trimmed) == speaker_label(speaker) \o <<" ">> \o trimmed

\* JournalManager::save_meeting_segments: DELETE of the rows of the entry, then one INSERT per segment
\* DELETE FROM meeting_segments WHERE entry_id = ?1
delete_segments(db, entry_id) == [db EXCEPT ![entry_id] = << >>]
\* INSERT INTO meeting_segments (entry_id, ..) VALUES (?1, ..)
insert_segment(db, entry_id, seg) == [db EXCEPT ![entry_id] = Append(@, seg)]

RECURSIVE insert_segments(_, _, _)
insert_segments(db, entry_id, segs) ==
    IF segs = << >> THEN db
    ELSE insert_segments(insert_segment(db, entry_id, segs[1]), entry_id, Tail(segs))

save_meeting_segments_Mutant(db, entry_id, segs) == insert_segments(db, entry_id, segs)
save_meeting_segments(db, entry_id, segs) ==
    insert_segments(delete_segments(db, entry_id), entry_id, segs)

\* JournalManager::update_entry_after_processing
update_entry_after_processing(db, id, file_name, title, text) ==
    [db EXCEPT ![id] = [@ EXCEPT !.file_name = file_name, !.title = title,
                                 !.transcription_text = text]]

\* let text = if seg.samples.is_empty() { String::new() } else { transcribe_chunked(..).unwrap_or_else(..) }
RegionCall_Mutant(seg, outs) ==
    LET st == transcribe_chunked(seg.samples, outs)
    IN  [calls |-> st.calls, ret |-> st.ret]
RegionCall(seg, outs) ==
    IF seg.samples = 0 THEN [calls |-> << >>, ret |-> Ok(<< >>)]
    ELSE LET st == transcribe_chunked(seg.samples, outs)
         IN  [calls |-> st.calls, ret |-> st.ret]
\* unwrap_or_else(|e| { warn!(..); String::new() })
RegionText_Mutant(call) == IF call.ret.ok THEN call.ret.v ELSE <<"e", "r", "r">>
RegionText(call) == IF call.ret.ok THEN call.ret.v ELSE << >>

Event(stage, current, total) == [stage |-> stage, current |-> current, total |-> total]

OldSegment == [speaker |-> Some(0), start_ms |-> 0, end_ms |-> 500, text |-> <<"o">>]
OtherSegment == [speaker |-> None, start_ms |-> 0, end_ms |-> 700, text |-> <<"x">>]
OldText == <<"o", "l", "d">>
\* what left the entry as the run finds it: nothing, a diarize_entry run or a
\* transcribe_meeting run that stored OldSegment
Priors == {"none", "diarize_entry", "transcribe_meeting"}
PriorSegments(prior) == IF prior = "none" THEN << >> ELSE <<OldSegment>>
PriorText(prior) ==
    IF prior = "transcribe_meeting"
    THEN flat_line(OldSegment.speaker, OldSegment.text)
    ELSE OldText

Emit(ev) == events' = Append(events, ev)

\* both model files are on disk
models_installed(in) == in.seg_model_exists /\ in.emb_model_exists

\* What a run can find. get_segments reads the segmentation model file and
\* EmbeddingExtractor::new the embedding model file: neither succeeds on a
\* file that is absent.
PInputs ==
    {in \in [entry_exists : BOOLEAN, file_exists : BOOLEAN, wav_ok : BOOLEAN,
             seg_model_exists : BOOLEAN, emb_model_exists : BOOLEAN,
             seg_in : PSegmentationResults, extractor_ok : BOOLEAN,
             max_speakers : {None, Some(1)}, threshold : {None},
             prior : Priors] :
        /\ (~in.seg_model_exists => ~in.seg_in.ok)
        /\ (~in.emb_model_exists => ~in.extractor_ok)}

\* a cancellation is requested while the command runs; no step of the
\* command reads the request
PCancel ==
    /\ UNCHANGED <<dvars, cvars, nvars, svars, yvars>>
    /\ p_pc \notin {"idle", "done"}
    /\ ~cancel
    /\ cancel' = TRUE
    /\ UNCHANGED <<p_cmd, p_in, p_pc, events, raw_segments, p_i, diarized_segments,
                   flat_lines, t_log, db_segments, db_entries, p_ret>>

\* get_entry_by_id finds no entry
PEntryNotFound ==
    /\ UNCHANGED <<dvars, cvars, nvars, svars, yvars>>
    /\ p_pc = "start"
    /\ ~db_entries[EntryId].exists
    /\ p_ret' = Err("Entry not found")
    /\ p_pc' = "done"
    /\ UNCHANGED <<p_cmd, p_in, cancel, events, raw_segments, p_i, diarized_segments,
                   flat_lines, t_log, db_segments, db_entries>>

\* the audio file of the entry does not exist
PFileNotFound ==
    /\ UNCHANGED <<dvars, cvars, nvars, svars, yvars>>
    /\ p_pc = "start"
    /\ db_entries[EntryId].exists
    /\ ~p_in.file_exists
    /\ p_ret' = Err("Audio file not found")
    /\ p_pc' = "done"
    /\ UNCHANGED <<p_cmd, p_in, cancel, events, raw_segments, p_i, diarized_segments,
                   flat_lines, t_log, db_segments, db_entries>>

\* emit "loading"
PLoading ==
    /\ UNCHANGED <<dvars, cvars, nvars, svars, yvars>>
    /\ p_pc = "start"
    /\ db_entries[EntryId].exists
    /\ p_in.file_exists
    /\ Emit(Event("loading", 0, 0))
    /\ p_pc' = "loading"
    /\ UNCHANGED <<p_cmd, p_in, cancel, raw_segments, p_i, diarized_segments,
                   flat_lines, t_log, db_segments, db_entries, p_ret>>

\* WavReader::open fails
PWavFailed ==
    /\ UNCHANGED <<dvars, cvars, nvars, svars, yvars>>
    /\ p_pc = "loading"
    /\ ~p_in.wav_ok
    /\ p_ret' = Err("Failed to read WAV file")
    /\ p_pc' = "done"
    /\ UNCHANGED <<p_cmd, p_in, cancel, events, raw_segments, p_i, diarized_segments,
                   flat_lines, t_log, db_segments, db_entries>>

\* samples read, mixed and resampled; emit "diarizing"
PDiarizing ==
    /\ UNCHANGED <<dvars, cvars, nvars, svars, yvars>>
    /\ p_pc = "loading"
    /\ p_in.wav_ok
    /\ Emit(Event("diarizing", 0, 0))
    /\ p_pc' = "diarizing"
    /\ UNCHANGED <<p_cmd, p_in, cancel, raw_segments, p_i, diarized_segments,
                   flat_lines, t_log, db_segments, db_entries, p_ret>>

PDiarizeResult ==
    diarize_audio(p_in.seg_in, p_in.extractor_ok,
                  unwrap_or_value(p_in.max_speakers, DefaultMaxSpeakers),
                  unwrap_or_value(p_in.threshold, DefaultThreshold))

\* diarize_audio(..)? returns the error
PDiarizeFailed_Mutant ==
    /\ UNCHANGED <<dvars, cvars, nvars, svars, yvars>>
    /\ p_pc = "diarizing"
    /\ ~PDiarizeResult.ok
    /\ Emit(Event("done", 0, 0))
    /\ p_ret' = PDiarizeResult
    /\ p_pc' = "done"
    /\ UNCHANGED <<p_cmd, p_in, cancel, raw_segments, p_i, diarized_segments,
                   flat_lines, t_log, db_segments, db_entries>>
PDiarizeFailed ==
    /\ UNCHANGED <<dvars, cvars, nvars, svars, yvars>>
    /\ p_pc = "diarizing"
    /\ ~PDiarizeResult.ok
    /\ p_ret' = PDiarizeResult
    /\ p_pc' = "done"
    /\ UNCHANGED <<p_cmd, p_in, cancel, events, raw_segments, p_i, diarized_segments,
                   flat_lines, t_log, db_segments, db_entries>>

\* raw_segments.is_empty()
PNoSpeech_Mutant ==
    /\ UNCHANGED <<dvars, cvars, nvars, svars, yvars>>
    /\ p_pc = "diarizing"
    /\ PDiarizeResult.ok
    /\ PDiarizeResult.v = << >>
    /\ p_ret' = Err("No speech segments found")
    /\ p_pc' = "done"
    /\ UNCHANGED <<p_cmd, p_in, cancel, events, raw_segments, p_i, diarized_segments,
                   flat_lines, t_log, db_segments, db_entries>>
PNoSpeech ==
    /\ UNCHANGED <<dvars, cvars, nvars, svars, yvars>>
    /\ p_pc = "diarizing"
    /\ PDiarizeResult.ok
    /\ PDiarizeResult.v = << >>
    /\ raw_segments' = << >>
    /\ db_entries' =
         IF p_cmd = "transcribe_meeting"
         THEN update_entry_after_processing(db_entries, EntryId,
                  db_entries[EntryId].file_name, db_entries[EntryId].title, << >>)
         ELSE db_entries
    /\ Emit(Event("done", 0, 0))
    /\ p_ret' = Ok(<< >>)
    /\ p_pc' = "done"
    /\ UNCHANGED <<p_cmd, p_in, cancel, p_i, diarized_segments, flat_lines, t_log,
                   db_segments>>

\* emit "transcribing" with the total
PTranscribing ==
    /\ UNCHANGED <<dvars, cvars, nvars, svars, yvars>>
    /\ p_pc = "diarizing"
    /\ PDiarizeResult.ok
    /\ PDiarizeResult.v # << >>
    /\ raw_segments' = PDiarizeResult.v
    /\ Emit(Event("transcribing", 0, Len(PDiarizeResult.v)))
    /\ diarized_segments' = << >>
    /\ flat_lines' = << >>
    /\ p_i' = 1
    /\ p_pc' = "loop"
    /\ UNCHANGED <<p_cmd, p_in, cancel, t_log, db_segments, db_entries, p_ret>>

\* top of an iteration: emit the progress of region p_i
PProgress ==
    /\ UNCHANGED <<dvars, cvars, nvars, svars, yvars>>
    /\ p_pc = "loop"
    /\ p_i <= Len(raw_segments)
    /\ Emit(Event("transcribing", p_i, Len(raw_segments)))
    /\ p_pc' = "region"
    /\ UNCHANGED <<p_cmd, p_in, cancel, raw_segments, p_i, diarized_segments,
                   flat_lines, t_log, db_segments, db_entries, p_ret>>

\* rest of the iteration: transcribe the region, keep it if its text is not empty
PRegion ==
    /\ UNCHANGED <<dvars, cvars, nvars, svars, yvars>>
    /\ p_pc = "region"
    /\ \E outs \in [1..MaxCalls(raw_segments[p_i].samples) -> POutcomes] :
         LET seg == raw_segments[p_i]
             call == RegionCall(seg, outs)
             trimmed == trim(RegionText(call))
         IN  /\ t_log' = Append(t_log, [region |-> p_i, calls |-> call.calls,
                                        ret |-> call.ret])
             /\ diarized_segments' =
                  IF trimmed # << >>
                  THEN Append(diarized_segments, DiarizedSegment(seg, trimmed))
                  ELSE diarized_segments
             /\ flat_lines' =
                  IF trimmed # << >> /\ p_cmd = "transcribe_meeting"
                  THEN Append(flat_lines, flat_line(seg.speaker, trimmed))
                  ELSE flat_lines
    /\ p_i' = p_i + 1
    /\ p_pc' = "loop"
    /\ UNCHANGED <<p_cmd, p_in, cancel, events, raw_segments, db_segments, db_entries, p_ret>>

\* after the loop: save the segments, transcribe_meeting also updates the entry
PSave_Mutant ==
    /\ UNCHANGED <<dvars, cvars, nvars, svars, yvars>>
    /\ p_pc = "loop"
    /\ p_i > Len(raw_segments)
    /\ db_segments' = save_meeting_segments(db_segments, EntryId, diarized_segments)
    /\ db_entries' =
         update_entry_after_processing(db_entries, EntryId,
             db_entries[EntryId].file_name, db_entries[EntryId].title,
             join(flat_lines, <<"\n">>))
    /\ p_pc' = "saved"
    /\ UNCHANGED <<p_cmd, p_in, cancel, events, raw_segments, p_i, diarized_segments,
                   flat_lines, t_log, p_ret>>
PSave ==
    /\ UNCHANGED <<dvars, cvars, nvars, svars, yvars>>
    /\ p_pc = "loop"
    /\ p_i > Len(raw_segments)
    /\ db_segments' = save_meeting_segments(db_segments, EntryId, diarized_segments)
    /\ db_entries' =
         IF p_cmd = "transcribe_meeting"
         THEN update_entry_after_processing(db_entries, EntryId,
                  db_entries[EntryId].file_name, db_entries[EntryId].title,
                  join(flat_lines, <<"\n">>))
         ELSE db_entries
    /\ p_pc' = "saved"
    /\ UNCHANGED <<p_cmd, p_in, cancel, events, raw_segments, p_i, diarized_segments,
                   flat_lines, t_log, p_ret>>

\* emit "done", return Ok(())
PDone_Mutant ==
    /\ UNCHANGED <<dvars, cvars, nvars, svars, yvars>>
    /\ p_pc = "saved"
    /\ p_ret' = Ok(<< >>)
    /\ p_pc' = "done"
    /\ UNCHANGED <<p_cmd, p_in, cancel, events, raw_segments, p_i, diarized_segments,
                   flat_lines, t_log, db_segments, db_entries>>
PDone ==
    /\ UNCHANGED <<dvars, cvars, nvars, svars, yvars>>
    /\ p_pc = "saved"
    /\ Emit(Event("done", 0, 0))
    /\ p_ret' = Ok(<< >>)
    /\ p_pc' = "done"
    /\ UNCHANGED <<p_cmd, p_in, cancel, raw_segments, p_i, diarized_segments,
                   flat_lines, t_log, db_segments, db_entries>>

PNext ==
    \/ PEntryNotFound
    \/ PFileNotFound
    \/ PLoading
    \/ PWavFailed
    \/ PDiarizing
    \/ PDiarizeFailed
    \/ PNoSpeech
    \/ PTranscribing
    \/ PProgress
    \/ PRegion
    \/ PSave
    \/ PDone
    \/ PCancel

(***************************************************************************)
(* Normalisation of the audio read from the WAV file: mix to mono, then    *)
(* resample to 16 kHz.  A sample is an exact rational <<n, d>> in lowest   *)
(* terms with d > 0, so that two samples are equal iff they are the same   *)
(* pair.                                                                   *)
(***************************************************************************)
Abs(x) == IF x < 0 THEN -x ELSE x

RECURSIVE GCD(_, _)
GCD(a, b) == IF b = 0 THEN a ELSE GCD(b, a % b)

Lowest(n, d) == LET g == GCD(Abs(n), d) IN <<n \div g, d \div g>>
Rat(n) == <<n, 1>>
RatAdd(x, y) == Lowest(x[1] * y[2] + y[1] * x[2], x[2] * y[2])
RatSub(x, y) == Lowest(x[1] * y[2] - y[1] * x[2], x[2] * y[2])
RatMul(x, y) == Lowest(x[1] * y[1], x[2] * y[2])
RatDivInt(x, k) == Lowest(x[1], x[2] * k)
\* the integer part of a rational that is not negative (`as usize`)
Floor(x) == x[1] \div x[2]

\* the samples a WAV file can hold and the sample rates it can declare
SampleVals == {Rat(-1), Rat(0), Rat(1)}
Rates == {4000, 8000, 12000, 15999, 16000, 16001, 24000, 44100}

RECURSIVE RatSum(_)
RatSum(frame) == IF frame = << >> THEN Rat(0)
                 ELSE RatAdd(frame[1], RatSum(Tail(frame)))

\* slice::chunks(n): the frames in order, the last one shorter when the
\* length is not a multiple of n
chunks(s, n) ==
    [k \in 1..((Len(s) + n - 1) \div n) |->
        SubSeq(s, (k - 1) * n + 1, Min(k * n, Len(s)))]

frame_mean_Mutant(frame, channels) == RatDivInt(RatSum(frame), 2)
frame_mean(frame, channels) == RatDivInt(RatSum(frame), channels)

\* "Mix to mono if multichannel"
mono_samples(raw_samples, channels) ==
    IF channels > 1
    THEN [k \in 1..Len(chunks(raw_samples, channels)) |->
             frame_mean(chunks(raw_samples, channels)[k], channels)]
    ELSE raw_samples

\* slice::get with a 0-based index
get(s, idx) == IF idx < Len(s) THEN Some(s[idx + 1]) ELSE None

interpolate_Mutant(mono, src_idx) ==
    LET idx == Floor(src_idx)
        frac == RatSub(src_idx, Rat(idx))
        a == unwrap_or_value(get(mono, idx), Rat(0))
        b == unwrap_or_value(get(mono, idx + 1), Rat(0))
    IN  RatAdd(a, RatMul(RatSub(b, a), frac))
\* the closure of the resampler: the output sample at source position src_idx
interpolate(mono, src_idx) ==
    LET idx == Floor(src_idx)
        frac == RatSub(src_idx, Rat(idx))
        a == unwrap_or_value(get(mono, idx), Rat(0))
        b == unwrap_or_value(get(mono, idx + 1), a)
    IN  RatAdd(a, RatMul(RatSub(b, a), frac))

\* sample_rate as f64 / target_rate as f64
ratio(sample_rate) == Lowest(sample_rate, target_rate)

\* (mono_samples.len() as f64 / ratio) as usize
new_len_Mutant(len, sample_rate) == Floor(RatMul(Rat(len), ratio(sample_rate)))
new_len(len, sample_rate) ==
    Floor(RatMul(Rat(len), <<ratio(sample_rate)[2], ratio(sample_rate)[1]>>))

\* i as f64 * ratio
src_idx(i, sample_rate) == RatMul(Rat(i), ratio(sample_rate))

resample(mono, sample_rate) ==
    [j \in 1..new_len(Len(mono), sample_rate) |->
        interpolate(mono, src_idx(j - 1, sample_rate))]

\* "Resample to 16kHz if needed"
samples(mono, sample_rate) ==
    IF sample_rate # target_rate THEN resample(mono, sample_rate) ELSE mono

\* spec.channels > 1: one sample per frame
NDownmix ==
    /\ UNCHANGED <<dvars, cvars, pvars, svars, yvars>>
    /\ n_pc = "start"
    /\ n_channels > 1
    /\ n_mono' = mono_samples(n_raw, n_channels)
    /\ n_pc' = "mono"
    /\ UNCHANGED <<n_raw, n_channels, n_rate, n_out>>

\* a single channel: raw_samples is moved to mono_samples
NMonoKept ==
    /\ UNCHANGED <<dvars, cvars, pvars, svars, yvars>>
    /\ n_pc = "start"
    /\ ~(n_channels > 1)
    /\ n_mono' = mono_samples(n_raw, n_channels)
    /\ n_pc' = "mono"
    /\ UNCHANGED <<n_raw, n_channels, n_rate, n_out>>

\* spec.sample_rate != target_rate: linear interpolation
NResample ==
    /\ UNCHANGED <<dvars, cvars, pvars, svars, yvars>>
    /\ n_pc = "mono"
    /\ n_rate # target_rate
    /\ n_out' = samples(n_mono, n_rate)
    /\ n_pc' = "done"
    /\ UNCHANGED <<n_raw, n_channels, n_rate, n_mono>>

\* the file is at the target rate: mono_samples is moved to samples
NRateKept ==
    /\ UNCHANGED <<dvars, cvars, pvars, svars, yvars>>
    /\ n_pc = "mono"
    /\ ~(n_rate # target_rate)
    /\ n_out' = samples(n_mono, n_rate)
    /\ n_pc' = "done"
    /\ UNCHANGED <<n_raw, n_channels, n_rate, n_mono>>

NNext ==
    \/ NDownmix
    \/ NMonoKept
    \/ NResample
    \/ NRateKept

(***************************************************************************)
(* Two calls of save_meeting_segments on the same entry that overlap in    *)
(* time.  Each call opens its own connection and runs its statements in    *)
(* autocommit mode, so the unit of interleaving is one statement.          *)
(***************************************************************************)
SaveSegs ==
    {[speaker |-> Some(0), start_ms |-> 0, end_ms |-> 1000, text |-> <<"a">>],
     [speaker |-> Some(1), start_ms |-> 1000, end_ms |-> 2000, text |-> <<"a">>]}

\* what a run can hand to save_meeting_segments: segments in the order of
\* their regions
SaveOutputs ==
    {segs \in SeqsUpTo(SaveSegs, MaxSaved) :
        \A i, j \in 1..Len(segs) : i < j => segs[i].start_ms < segs[j].start_ms}

\* "Clear existing segments for this entry"
SDelete ==
    /\ UNCHANGED <<dvars, cvars, nvars, yvars>>
    /\ \E r \in Runs :
         /\ s_pc[r] = "call"
         /\ db_segments' = delete_segments(db_segments, EntryId)
         /\ s_pc' = [s_pc EXCEPT ![r] = "insert"]
         /\ s_k' = [s_k EXCEPT ![r] = 1]
    /\ UNCHANGED <<s_out, p_cmd, p_in, p_pc, events, raw_segments, p_i,
                   diarized_segments, flat_lines, t_log, db_entries, p_ret, cancel>>

\* one iteration of "for seg in segments": one INSERT
SInsert ==
    /\ UNCHANGED <<dvars, cvars, nvars, yvars>>
    /\ \E r \in Runs :
         /\ s_pc[r] = "insert"
         /\ s_k[r] <= Len(s_out[r])
         /\ db_segments' = insert_segment(db_segments, EntryId, s_out[r][s_k[r]])
         /\ s_k' = [s_k EXCEPT ![r] = @ + 1]
    /\ UNCHANGED <<s_pc, s_out, p_cmd, p_in, p_pc, events, raw_segments, p_i,
                   diarized_segments, flat_lines, t_log, db_entries, p_ret, cancel>>

\* the loop is over: Ok(())
SReturn ==
    /\ UNCHANGED <<dvars, cvars, nvars, yvars>>
    /\ \E r \in Runs :
         /\ s_pc[r] = "insert"
         /\ s_k[r] > Len(s_out[r])
         /\ s_pc' = [s_pc EXCEPT ![r] = "done"]
    /\ UNCHANGED <<s_out, s_k, pvars>>

SNext ==
    \/ SDelete
    \/ SInsert
    \/ SReturn

(***************************************************************************)
(* download_audio: yt-dlp is spawned, its stdout is read line by line and  *)
(* its exit status awaited; the listener of "ytdlp-cancel" sets            *)
(* cancel_flag at any moment after it was registered.                      *)
(***************************************************************************)
\* a line of stdout: a progress record with a percentage that parses, a
\* line that starts like one and does not parse, or any other line
Lines ==
    {[kind |-> "progress", pct |-> 10], [kind |-> "progress", pct |-> 100],
     [kind |-> "malformed", pct |-> 0], [kind |-> "other", pct |-> 0]}

YInputs ==
    [installed : BOOLEAN, spawn_ok : BOOLEAN, lines : SeqsUpTo(Lines, MaxLines),
     wait_ok : BOOLEAN, success : BOOLEAN]

\* the progress a line makes the call emit
LineProgress(line) == IF line.kind = "progress" THEN <<line.pct>> ELSE << >>

\* if !status.success() && !cancel_flag.load(..)
ExitFailed(success, cancelled) == ~success /\ ~cancelled

\* the binary is not there
YNotInstalled ==
    /\ UNCHANGED <<dvars, cvars, pvars, nvars, svars>>
    /\ y_pc = "start"
    /\ ~y_in.installed
    /\ y_ret' = Err("yt-dlp is not installed")
    /\ y_pc' = "done"
    /\ UNCHANGED <<y_in, y_lines, y_cancel, y_progress>>

\* the listener is registered, the process cannot be spawned
YSpawnFailed ==
    /\ UNCHANGED <<dvars, cvars, pvars, nvars, svars>>
    /\ y_pc = "start"
    /\ y_in.installed
    /\ ~y_in.spawn_ok
    /\ y_ret' = Err("Failed to spawn yt-dlp")
    /\ y_pc' = "done"
    /\ UNCHANGED <<y_in, y_lines, y_cancel, y_progress>>

\* the listener is registered, the process runs
YSpawn ==
    /\ UNCHANGED <<dvars, cvars, pvars, nvars, svars>>
    /\ y_pc = "start"
    /\ y_in.installed
    /\ y_in.spawn_ok
    /\ y_lines' = y_in.lines
    /\ y_pc' = "reading"
    /\ UNCHANGED <<y_in, y_cancel, y_progress, y_ret>>

\* the listener of "ytdlp-cancel" runs: cancel_flag.store(true)
YCancel ==
    /\ UNCHANGED <<dvars, cvars, pvars, nvars, svars>>
    /\ y_pc \in {"reading", "waiting"}
    /\ ~y_cancel
    /\ y_cancel' = TRUE
    /\ UNCHANGED <<y_in, y_pc, y_lines, y_progress, y_ret>>

\* a line is read and the flag is set: kill the process, Err("Cancelled")
YLineCancelled ==
    /\ UNCHANGED <<dvars, cvars, pvars, nvars, svars>>
    /\ y_pc = "reading"
    /\ y_lines # << >>
    /\ y_cancel
    /\ y_lines' = Tail(y_lines)
    /\ y_ret' = Err("Cancelled")
    /\ y_pc' = "done"
    /\ UNCHANGED <<y_in, y_cancel, y_progress>>

\* a line is read and the flag is not set: emit its progress, if any
YLine ==
    /\ UNCHANGED <<dvars, cvars, pvars, nvars, svars>>
    /\ y_pc = "reading"
    /\ y_lines # << >>
    /\ ~y_cancel
    /\ y_progress' = y_progress \o LineProgress(y_lines[1])
    /\ y_lines' = Tail(y_lines)
    /\ UNCHANGED <<y_in, y_pc, y_cancel, y_ret>>

\* stdout is at its end: the loop is over
YEof ==
    /\ UNCHANGED <<dvars, cvars, pvars, nvars, svars>>
    /\ y_pc = "reading"
    /\ y_lines = << >>
    /\ y_pc' = "waiting"
    /\ UNCHANGED <<y_in, y_lines, y_cancel, y_progress, y_ret>>

\* child.wait() fails
YWaitFailed ==
    /\ UNCHANGED <<dvars, cvars, pvars, nvars, svars>>
    /\ y_pc = "waiting"
    /\ ~y_in.wait_ok
    /\ y_ret' = Err("Failed to wait for yt-dlp")
    /\ y_pc' = "done"
    /\ UNCHANGED <<y_in, y_lines, y_cancel, y_progress>>

\* the process ended with a failure status and the flag is not set
YFailed ==
    /\ UNCHANGED <<dvars, cvars, pvars, nvars, svars>>
    /\ y_pc = "waiting"
    /\ y_in.wait_ok
    /\ ExitFailed(y_in.success, y_cancel)
    /\ y_ret' = Err("yt-dlp failed")
    /\ y_pc' = "done"
    /\ UNCHANGED <<y_in, y_lines, y_cancel, y_progress>>

\* otherwise: Ok(())
YReturn ==
    /\ UNCHANGED <<dvars, cvars, pvars, nvars, svars>>
    /\ y_pc = "waiting"
    /\ y_in.wait_ok
    /\ ~ExitFailed(y_in.success, y_cancel)
    /\ y_ret' = Ok(<< >>)
    /\ y_pc' = "done"
    /\ UNCHANGED <<y_in, y_lines, y_cancel, y_progress>>

YNext ==
    \/ YNotInstalled
    \/ YSpawnFailed
    \/ YSpawn
    \/ YCancel
    \/ YLineCancelled
    \/ YLine
    \/ YEof
    \/ YWaitFailed
    \/ YFailed
    \/ YReturn

(***************************************************************************)
(* The specifications: one per function under study; the variables of the  *)
(* other functions rest.                                                   *)
(***************************************************************************)

\* diarize_audio is called with any parameters and capabilities
DInit ==
    /\ max_speakers \in 0..MaxSpeakersCfg
    /\ threshold \in Thresholds
    /\ seg_in \in SegmentationResults({1}, MaxRegions)
    /\ extractor_ok \in BOOLEAN
    /\ d_pc = "start"
    /\ segments = << >>
    /\ d_idx = 0
    /\ manager = EmbeddingManager_new
    /\ result = << >>
    /\ d_ret = NoRet
    /\ c_len = 0
    /\ c_pc = "idle"
    /\ c_st = ChunkInit
    /\ c_outs = << >>
    /\ p_cmd = "none"
    /\ p_in = << >>
    /\ p_pc = "idle"
    /\ events = << >>
    /\ raw_segments = << >>
    /\ p_i = 0
    /\ diarized_segments = << >>
    /\ flat_lines = << >>
    /\ t_log = << >>
    /\ db_segments = << >>
    /\ db_entries = << >>
    /\ p_ret = NoRet
    /\ cancel = FALSE
    /\ n_raw = << >>
    /\ n_channels = 1
    /\ n_rate = target_rate
    /\ n_pc = "idle"
    /\ n_mono = << >>
    /\ n_out = << >>
    /\ s_pc = [r \in Runs |-> "idle"]
    /\ s_out = [r \in Runs |-> << >>]
    /\ s_k = [r \in Runs |-> 0]
    /\ y_in = << >>
    /\ y_pc = "idle"
    /\ y_lines = << >>
    /\ y_cancel = FALSE
    /\ y_progress = << >>
    /\ y_ret = NoRet

\* transcribe_chunked is called on samples of any of the lengths
CInit ==
    /\ max_speakers = 0
    /\ threshold = DefaultThreshold
    /\ seg_in = [ok |-> FALSE, items |-> << >>]
    /\ extractor_ok = FALSE
    /\ d_pc = "idle"
    /\ segments = << >>
    /\ d_idx = 0
    /\ manager = << >>
    /\ result = << >>
    /\ d_ret = NoRet
    /\ c_len \in SampleLens
    /\ c_pc = "start"
    /\ c_st = ChunkInit
    /\ c_outs = << >>
    /\ p_cmd = "none"
    /\ p_in = << >>
    /\ p_pc = "idle"
    /\ events = << >>
    /\ raw_segments = << >>
    /\ p_i = 0
    /\ diarized_segments = << >>
    /\ flat_lines = << >>
    /\ t_log = << >>
    /\ db_segments = << >>
    /\ db_entries = << >>
    /\ p_ret = NoRet
    /\ cancel = FALSE
    /\ n_raw = << >>
    /\ n_channels = 1
    /\ n_rate = target_rate
    /\ n_pc = "idle"
    /\ n_mono = << >>
    /\ n_out = << >>
    /\ s_pc = [r \in Runs |-> "idle"]
    /\ s_out = [r \in Runs |-> << >>]
    /\ s_k = [r \in Runs |-> 0]
    /\ y_in = << >>
    /\ y_pc = "idle"
    /\ y_lines = << >>
    /\ y_cancel = FALSE
    /\ y_progress = << >>
    /\ y_ret = NoRet

\* a command is invoked on the entry EntryId
PInit ==
    /\ max_speakers = 0
    /\ threshold = DefaultThreshold
    /\ seg_in = [ok |-> FALSE, items |-> << >>]
    /\ extractor_ok = FALSE
    /\ d_pc = "idle"
    /\ segments = << >>
    /\ d_idx = 0
    /\ manager = << >>
    /\ result = << >>
    /\ d_ret = NoRet
    /\ c_len = 0
    /\ c_pc = "idle"
    /\ c_st = ChunkInit
    /\ c_outs = << >>
    /\ p_cmd \in {"transcribe_meeting", "diarize_entry"}
    /\ p_in \in PInputs
    /\ p_pc = "start"
    /\ events = << >>
    /\ raw_segments = << >>
    /\ p_i = 0
    /\ diarized_segments = << >>
    /\ flat_lines = << >>
    /\ t_log = << >>
    /\ db_segments = [e \in {EntryId, OtherId} |->
                         IF e = OtherId THEN <<OtherSegment>>
                         ELSE PriorSegments(p_in.prior)]
    /\ db_entries = [e \in {EntryId, OtherId} |->
                        [exists |-> IF e = EntryId THEN p_in.entry_exists ELSE TRUE,
                         file_name |-> "f.wav", title |-> "t",
                         transcription_text |->
                             IF e = EntryId THEN PriorText(p_in.prior) ELSE OldText]]
    /\ p_ret = NoRet
    /\ cancel = FALSE
    /\ n_raw = << >>
    /\ n_channels = 1
    /\ n_rate = target_rate
    /\ n_pc = "idle"
    /\ n_mono = << >>
    /\ n_out = << >>
    /\ s_pc = [r \in Runs |-> "idle"]
    /\ s_out = [r \in Runs |-> << >>]
    /\ s_k = [r \in Runs |-> 0]
    /\ y_in = << >>
    /\ y_pc = "idle"
    /\ y_lines = << >>
    /\ y_cancel = FALSE
    /\ y_progress = << >>
    /\ y_ret = NoRet

\* the normalisation of any WAV content
NInit ==
    /\ max_speakers = 0
    /\ threshold = DefaultThreshold
    /\ seg_in = [ok |-> FALSE, items |-> << >>]
    /\ extractor_ok = FALSE
    /\ d_pc = "idle"
    /\ segments = << >>
    /\ d_idx = 0
    /\ manager = << >>
    /\ result = << >>
    /\ d_ret = NoRet
    /\ c_len = 0
    /\ c_pc = "idle"
    /\ c_st = ChunkInit
    /\ c_outs = << >>
    /\ p_cmd = "none"
    /\ p_in = << >>
    /\ p_pc = "idle"
    /\ events = << >>
    /\ raw_segments = << >>
    /\ p_i = 0
    /\ diarized_segments = << >>
    /\ flat_lines = << >>
    /\ t_log = << >>
    /\ db_segments = << >>
    /\ db_entries = << >>
    /\ p_ret = NoRet
    /\ cancel = FALSE
    /\ n_raw \in SeqsUpTo(SampleVals, MaxSamples)
    /\ n_channels \in 1..MaxChannels
    /\ n_rate \in Rates
    /\ n_pc = "start"
    /\ n_mono = << >>
    /\ n_out = << >>
    /\ s_pc = [r \in Runs |-> "idle"]
    /\ s_out = [r \in Runs |-> << >>]
    /\ s_k = [r \in Runs |-> 0]
    /\ y_in = << >>
    /\ y_pc = "idle"
    /\ y_lines = << >>
    /\ y_cancel = FALSE
    /\ y_progress = << >>
    /\ y_ret = NoRet

\* two calls of save_meeting_segments on the entry, each with the output of its run
SInit ==
    /\ max_speakers = 0
    /\ threshold = DefaultThreshold
    /\ seg_in = [ok |-> FALSE, items |-> << >>]
    /\ extractor_ok = FALSE
    /\ d_pc = "idle"
    /\ segments = << >>
    /\ d_idx = 0
    /\ manager = << >>
    /\ result = << >>
    /\ d_ret = NoRet
    /\ c_len = 0
    /\ c_pc = "idle"
    /\ c_st = ChunkInit
    /\ c_outs = << >>
    /\ p_cmd = "none"
    /\ p_in = << >>
    /\ p_pc = "idle"
    /\ events = << >>
    /\ raw_segments = << >>
    /\ p_i = 0
    /\ diarized_segments = << >>
    /\ flat_lines = << >>
    /\ t_log = << >>
    /\ db_segments \in {[e \in {EntryId, OtherId} |->
                            IF e = OtherId THEN <<OtherSegment>> ELSE old] :
                        old \in {<< >>, <<OldSegment>>}}
    /\ db_entries = << >>
    /\ p_ret = NoRet
    /\ cancel = FALSE
    /\ n_raw = << >>
    /\ n_channels = 1
    /\ n_rate = target_rate
    /\ n_pc = "idle"
    /\ n_mono = << >>
    /\ n_out = << >>
    /\ s_pc = [r \in Runs |-> "call"]
    /\ s_out \in [Runs -> SaveOutputs]
    /\ s_k = [r \in Runs |-> 0]
    /\ y_in = << >>
    /\ y_pc = "idle"
    /\ y_lines = << >>
    /\ y_cancel = FALSE
    /\ y_progress = << >>
    /\ y_ret = NoRet

\* download_audio is called with any binary, process and stdout
YInit ==
    /\ max_speakers = 0
    /\ threshold = DefaultThreshold
    /\ seg_in = [ok |-> FALSE, items |-> << >>]
    /\ extractor_ok = FALSE
    /\ d_pc = "idle"
    /\ segments = << >>
    /\ d_idx = 0
    /\ manager = << >>
    /\ result = << >>
    /\ d_ret = NoRet
    /\ c_len = 0
    /\ c_pc = "idle"
    /\ c_st = ChunkInit
    /\ c_outs = << >>
    /\ p_cmd = "none"
    /\ p_in = << >>
    /\ p_pc = "idle"
    /\ events = << >>
    /\ raw_segments = << >>
    /\ p_i = 0
    /\ diarized_segments = << >>
    /\ flat_lines = << >>
    /\ t_log = << >>
    /\ db_segments = << >>
    /\ db_entries = << >>
    /\ p_ret = NoRet
    /\ cancel = FALSE
    /\ n_raw = << >>
    /\ n_channels = 1
    /\ n_rate = target_rate
    /\ n_pc = "idle"
    /\ n_mono = << >>
    /\ n_out = << >>
    /\ s_pc = [r \in Runs |-> "idle"]
    /\ s_out = [r \in Runs |-> << >>]
    /\ s_k = [r \in Runs |-> 0]
    /\ y_in \in YInputs
    /\ y_pc = "start"
    /\ y_lines = << >>
    /\ y_cancel = FALSE
    /\ y_progress = << >>
    /\ y_ret = NoRet

\* diarize_audio, step by step
SpecDiarize == DInit /\ [][DNext]_vars

\* transcribe_chunked, step by step
SpecChunk == CInit /\ [][CNext]_vars

\* a run of transcribe_meeting or diarize_entry
Spec == PInit /\ [][PNext]_vars

\* the normalisation of the audio of an entry
SpecNorm == NInit /\ [][NNext]_vars

\* two overlapping calls of save_meeting_segments
SpecSave == SInit /\ [][SNext]_vars

\* download_audio, step by step
SpecDownload == YInit /\ [][YNext]_vars

(***************************************************************************)
(* Properties of diarize_audio (SpecDiarize).                              *)
(***************************************************************************)
\* the step by step run returns the value of the function diarize_audio
DiarizeAgree ==
    d_pc = "done" => d_ret = diarize_audio(seg_in, extractor_ok, max_speakers, threshold)

SpeakerIds(res) == {res[i].speaker.v : i \in 1..Len(res)}

\* C1: while the regions of a run are clustered the registry never holds more
\* than max_speakers speakers, and an assignment made when it holds
\* max_speakers speakers leaves the number of speakers (the set of ids) as it is.
C1_RegistryWithinCap ==
    /\ [](Len(manager) <= max_speakers)
    /\ [][Len(manager) >= max_speakers => Len(manager') = Len(manager)]_vars

\* the registry is full and regions were assigned after it became full
C1_Witness ==
    /\ max_speakers = 2
    /\ Len(manager) = 2
    /\ Len(result) = 4
    /\ \E i \in 1..2 : manager[i].n > 1

\* C2: for max_speakers = k >= 1 the speaker ids of the output are at most k
\* distinct values, all in 0..k-1.
C2_IdsBelowCap ==
    max_speakers >= 1 =>
        /\ \A i \in 1..Len(result) :
              result[i].speaker.some /\ result[i].speaker.v \in 0..(max_speakers - 1)
        /\ Cardinality(SpeakerIds(result)) <= max_speakers

\* more distinct embeddings than the cap, none of them similar enough to another
C2_Witness ==
    /\ d_pc = "done"
    /\ d_ret.ok
    /\ max_speakers = 2
    /\ threshold = <<3, 2>>
    /\ Cardinality({segments[i].emb.v : i \in 1..Len(segments)}) = 4
    /\ SpeakerIds(d_ret.v) = {0, 1}

C4_SingleSpeaker ==
    max_speakers = 1 =>
        \A i \in 1..Len(result) : result[i].speaker = Some(0)

\* max_speakers = 1, several regions with different embeddings, for every threshold
C4_Witness ==
    /\ max_speakers = 1
    /\ threshold = <<3, 2>>
    /\ d_pc = "done"
    /\ d_ret.ok
    /\ Len(d_ret.v) = 3
    /\ Cardinality({segments[i].emb.v : i \in 1..Len(segments)}) = 3

\* C8 as stated: when the embedding of a region cannot be computed the run
\* does not fail, the region is kept with speaker None and the other regions
\* keep their speakers.
C8_EmbeddingFailureKeepsRegion ==
    (/\ d_pc = "done"
     /\ seg_in.ok
     /\ extractor_ok
     /\ \E i \in 1..Len(segments) : ~segments[i].emb.ok)
    => /\ d_ret.ok
       /\ Len(d_ret.v) = Len(segments)
       /\ \A i \in 1..Len(segments) :
             d_ret.v[i].speaker.some = segments[i].emb.ok

(***************************************************************************)
(* Properties of transcribe_chunked (SpecChunk).                           *)
(***************************************************************************)
\* the step by step run agrees with the function transcribe_chunked
ChunkAgree ==
    c_pc = "done" => c_st = transcribe_chunked(c_len, c_outs)

\* the least n with n * CHUNK_SIZE >= len
CeilChunks(len) ==
    CHOOSE n \in 0..(MaxChunks + 2) :
        n * CHUNK_SIZE >= len /\ (n = 0 \/ (n - 1) * CHUNK_SIZE < len)

\* C5: the calls of the capability are made on the consecutive windows of
\* CHUNK_SIZE samples, in order (the k-th call on the k-th window, the last
\* window ending with the input); a call that returns Ok made
\* ceil(len / CHUNK_SIZE) calls when len > CHUNK_SIZE (2 for 2 * CHUNK_SIZE)
\* and one call on the whole input when len <= CHUNK_SIZE.
C5_CallsPerChunk ==
    /\ \A k \in 1..Len(c_st.calls) :
          /\ c_st.calls[k].lo = (k - 1) * CHUNK_SIZE
          /\ c_st.calls[k].hi = IF k * CHUNK_SIZE <= c_len THEN k * CHUNK_SIZE ELSE c_len
    /\ (c_pc = "done" /\ c_st.ret.ok /\ c_len > CHUNK_SIZE) =>
          /\ Len(c_st.calls) = CeilChunks(c_len)
          /\ c_st.calls[Len(c_st.calls)].hi = c_len
          /\ (c_len = 2 * CHUNK_SIZE => Len(c_st.calls) = 2)
    /\ (c_pc = "done" /\ c_len <= CHUNK_SIZE) =>
          c_st.calls = <<[lo |-> 0, hi |-> c_len]>>

\* three calls, the last on a window of one sample
C5_Witness ==
    /\ c_pc = "done"
    /\ c_st.ret.ok
    /\ c_len = 2 * CHUNK_SIZE + 1
    /\ Len(c_st.calls) = 3
    /\ c_st.calls[3] = [lo |-> 2 * CHUNK_SIZE, hi |-> 2 * CHUNK_SIZE + 1]

NonEmptyText(t) == t # << >>
TrimmedTexts(outs) == [k \in 1..Len(outs) |-> trim(outs[k].v)]
NoStraySpace(t) ==
    /\ t # << >> => (t[1] # " " /\ t[Len(t)] # " ")
    /\ \A i \in 1..(Len(t) - 1) : ~(t[i] = " " /\ t[i + 1] = " ")

\* C6: on the chunked path, when all chunks are transcribed, the value is the
\* trimmed non-empty texts of the chunks in order, joined by one space: no
\* space at either end, no two spaces in a row, empty when all chunks are empty.
C6_JoinOfNonEmptyChunks ==
    (c_pc = "done" /\ c_len > CHUNK_SIZE /\ c_st.ret.ok) =>
        /\ c_st.ret.v = join(SelectSeq(TrimmedTexts(c_outs), NonEmptyText), <<" ">>)
        /\ NoStraySpace(c_st.ret.v)
        /\ ((\A k \in 1..Len(c_outs) : trim(c_outs[k].v) = << >>) => c_st.ret.v = << >>)

\* three chunks, the middle one with a blank text
C6_Witness ==
    /\ c_pc = "done"
    /\ c_len = 3 * CHUNK_SIZE
    /\ c_outs = <<Ok(<<" ", "a", " ">>), Ok(<<" ">>), Ok(<<"b", " ", "c">>)>>
    /\ c_st.ret = Ok(<<"a", " ", "b", " ", "c">>)

\* C10: on the chunked path, once the call on chunk k has failed the function
\* has returned an error that names chunk k, with no text, and no later chunk
\* is passed to the capability.
C10_ChunkFailureIsFatal ==
    \A k \in 1..Len(c_outs) :
        (c_len > CHUNK_SIZE /\ ~c_outs[k].ok) =>
            /\ c_pc = "done"
            /\ ~c_st.ret.ok
            /\ c_st.ret.at = k
            /\ c_st.ret.v = << >>
            /\ Len(c_st.calls) = k
            /\ Len(c_outs) = k

\* the second of three chunks fails after the first gave a text
C10_Witness ==
    /\ c_pc = "done"
    /\ c_len = 3 * CHUNK_SIZE
    /\ c_outs = <<Ok(<<"a">>), Err("transcribe")>>
    /\ c_st.ret = ErrAt("Transcription failed on chunk", 2)
    /\ c_st.parts = <<<<"a">>>>

(***************************************************************************)
(* Properties of the commands (Spec).                                      *)
(***************************************************************************)
Stages(evs) == [k \in 1..Len(evs) |-> evs[k].stage]

\* the run gets as far as diarize_audio
ReachesDiarize == p_in.entry_exists /\ p_in.file_exists /\ p_in.wav_ok

\* segmentation succeeds and leaves no region
ZeroRegions == p_in.seg_in.ok /\ FilterOk(p_in.seg_in.items) = << >>

RegionSegment(i) == DiarizedSegment(raw_segments[i], trim(RegionText(t_log[i])))
KeptRegion(i) == t_log[i].ret.ok /\ trim(t_log[i].ret.v) # << >>
RECURSIVE ExpectedSegments(_)
ExpectedSegments(n) ==
    IF n = 0 THEN << >>
    ELSE IF KeptRegion(n) THEN Append(ExpectedSegments(n - 1), RegionSegment(n))
    ELSE ExpectedSegments(n - 1)

StageRank(stage) ==
    CASE stage = "loading" -> 1
      [] stage = "diarizing" -> 2
      [] stage = "transcribing" -> 3
      [] stage = "done" -> 4

\* C11: the stages of a run are emitted in the order loading, diarizing,
\* transcribing, done (no stage after a later one, transcribing only after
\* diarizing); a run that ended with an error has not emitted done, and once
\* a run has ended nothing more is emitted.
C11_StageOrder ==
    /\ [](/\ \A k \in 1..(Len(events) - 1) :
               StageRank(events[k].stage) <= StageRank(events[k + 1].stage)
          /\ \A k \in 1..Len(events) :
               events[k].stage = "transcribing" =>
                   \E j \in 1..(k - 1) : events[j].stage = "diarizing"
          /\ (p_pc = "done" /\ ~p_ret.ok) =>
               \A k \in 1..Len(events) : events[k].stage # "done")
    /\ [][p_pc = "done" => events' = events]_vars

\* a run of two regions that went through all four stages
C11_Witness ==
    /\ p_pc = "done"
    /\ p_ret.ok
    /\ Len(raw_segments) = 2
    /\ Stages(events) = <<"loading", "diarizing", "transcribing",
                          "transcribing", "transcribing", "done">>

\* C12: a run that returns Ok has emitted done exactly once, as its last
\* notification, on the zero-region path and on the path with regions.
C12_DoneOnceAndLast ==
    (p_pc = "done" /\ p_ret.ok) =>
        /\ Cardinality({k \in 1..Len(events) : events[k].stage = "done"}) = 1
        /\ events[Len(events)].stage = "done"

\* a successful run with regions
C12_Witness ==
    /\ p_pc = "done"
    /\ p_ret.ok
    /\ Len(raw_segments) = 2
    /\ Len(diarized_segments) = 1
    /\ events[Len(events)] = Event("done", 0, 0)

\* the region an output segment comes from: the one that starts when it starts
RegionOf(seg) ==
    CHOOSE i \in 1..Len(raw_segments) : raw_segments[i].start_ms = seg.start_ms

LabelOf(speaker) ==
    IF speaker = None THEN <<"[Unknown]">>
    ELSE <<"[Speaker ", Digits[speaker.v + 1], "]">>

\* C13: the output segments are taken from the regions in region order, each
\* with the speaker, start_ms and end_ms of its region; the transcript of
\* transcribe_meeting has one line per output segment, in the same order,
\* made of the label of the speaker, a space and the text of the segment,
\* and the lines are joined by newlines.
C13_SegmentsAndTranscript ==
    /\ \A k \in 1..Len(diarized_segments) :
          /\ \E i \in 1..Len(raw_segments) :
                raw_segments[i].start_ms = diarized_segments[k].start_ms
          /\ raw_segments[RegionOf(diarized_segments[k])].speaker
                = diarized_segments[k].speaker
          /\ raw_segments[RegionOf(diarized_segments[k])].end_ms
                = diarized_segments[k].end_ms
          /\ k > 1 => RegionOf(diarized_segments[k - 1]) < RegionOf(diarized_segments[k])
    /\ p_cmd = "transcribe_meeting" =>
          /\ Len(flat_lines) = Len(diarized_segments)
          /\ \A k \in 1..Len(flat_lines) :
                flat_lines[k] = LabelOf(diarized_segments[k].speaker) \o <<" ">>
                                    \o diarized_segments[k].text
    /\ (p_cmd = "transcribe_meeting" /\ p_pc \in {"saved", "done"} /\ raw_segments # << >>) =>
          LET text == db_entries[EntryId].transcription_text
          IN  /\ text = join(flat_lines, <<"\n">>)
              /\ Cardinality({n \in 1..Len(text) : text[n] = "\n"})
                    = IF flat_lines = << >> THEN 0 ELSE Len(flat_lines) - 1

\* two regions of two speakers, both with a text
C13_Witness ==
    /\ p_pc = "done"
    /\ p_cmd = "transcribe_meeting"
    /\ Len(diarized_segments) = 2
    /\ db_entries[EntryId].transcription_text
          = <<"[Speaker ", "0", "]", " ", "a", "\n", "[Speaker ", "1", "]", " ", "a">>

\* C14: when the segmentation capability fails the run returns its error; no
\* speaker was assigned, no region transcribed, transcribing and done were
\* not emitted, and no step of the run changes what is stored.
C14_SegmentationFailureIsFatal ==
    /\ []((p_pc = "done" /\ ReachesDiarize /\ ~p_in.seg_in.ok) =>
            /\ ~p_ret.ok
            /\ p_ret.err = "Segmentation failed"
            /\ raw_segments = << >>
            /\ diarized_segments = << >>
            /\ t_log = << >>
            /\ Stages(events) = <<"loading", "diarizing">>)
    /\ [][(p_pc # "idle" /\ ReachesDiarize /\ ~p_in.seg_in.ok) =>
            (db_segments' = db_segments /\ db_entries' = db_entries)]_vars

\* a run on an entry with stored segments that ended on the segmentation error
C14_Witness ==
    /\ p_pc = "done"
    /\ ReachesDiarize
    /\ ~p_in.seg_in.ok
    /\ p_ret = Err("Segmentation failed")
    /\ db_segments[EntryId] = <<OldSegment>>
    /\ db_entries[EntryId].transcription_text = OldText

\* C15: when the segmentation or the embedding model file is absent, the run
\* ends on an error and no stage notification was emitted.
C15_MissingModelsBeforeStages ==
    (p_pc = "done" /\ ~models_installed(p_in)) =>
        (~p_ret.ok /\ events = << >>)

\* C16: after a cancellation request no further region is transcribed and
\* nothing of the run is persisted.
C16_CancelStopsRun ==
    [][(p_pc # "idle" /\ cancel) =>
          /\ t_log' = t_log
          /\ db_segments' = db_segments
          /\ db_entries' = db_entries]_vars

\* C20: on every path of diarize_entry the transcription text, the title and
\* the file name of the entry are the same after the run as before it, and
\* no step changes anything but the stored segments of that entry.
C20_DiarizeEntryKeepsTranscript ==
    /\ [](p_cmd = "diarize_entry" =>
            /\ db_entries[EntryId].transcription_text = PriorText(p_in.prior)
            /\ db_entries[EntryId].title = "t"
            /\ db_entries[EntryId].file_name = "f.wav")
    /\ [][p_cmd = "diarize_entry" =>
            /\ db_entries' = db_entries
            /\ db_segments'[OtherId] = db_segments[OtherId]]_vars

\* diarize_entry replaced the stored segments of the entry and ended well
C20_Witness ==
    /\ p_cmd = "diarize_entry"
    /\ p_pc = "done"
    /\ p_ret.ok
    /\ Len(db_segments[EntryId]) = 2
    /\ db_segments[EntryId][1].text = <<"a">>
    /\ db_entries[EntryId].transcription_text = OldText

(***************************************************************************)
(* Properties of the normalisation (SpecNorm).                             *)
(***************************************************************************)

\* C17: input that is mono and at 16000 Hz comes out unchanged; the
\* resampler run from 16000 Hz to the target rate gives back its input;
\* empty input gives empty output.
C17_NormalizeIdentity ==
    n_pc = "done" =>
        /\ (n_channels = 1 /\ n_rate = 16000) => n_out = n_raw
        /\ resample(n_mono, 16000) = n_mono
        /\ n_rate = 16000 => n_out = n_mono
        /\ n_raw = << >> => n_out = << >>

C17_Witness ==
    /\ n_pc = "done"
    /\ n_channels = 1
    /\ n_rate = 16000
    /\ n_raw = <<Rat(1), Rat(-1), Rat(0), Rat(1)>>
    /\ n_out = n_raw

\* the k-th frame of c interleaved samples
FrameAt(k, c) == SubSeq(n_raw, (k - 1) * c + 1, k * c)

\* C18: with c > 1 channels there is one output sample per frame, the sum
\* of the c samples of the frame divided by c, in frame order; all-zero
\* input gives all-zero output whatever the channel count.
C18_Downmix ==
    n_pc \in {"mono", "done"} =>
        /\ n_channels > 1 =>
             /\ Len(n_mono) = (Len(n_raw) + n_channels - 1) \div n_channels
             /\ Len(n_raw) % n_channels = 0 =>
                    Len(n_mono) = Len(n_raw) \div n_channels
             /\ \A k \in 1..(Len(n_raw) \div n_channels) :
                    n_mono[k] = RatDivInt(RatSum(FrameAt(k, n_channels)), n_channels)
        /\ (\A i \in 1..Len(n_raw) : n_raw[i] = Rat(0)) =>
               (\A k \in 1..Len(n_mono) : n_mono[k] = Rat(0))

C18_Witness ==
    /\ n_pc = "mono"
    /\ n_channels = 3
    /\ n_raw = <<Rat(1), Rat(1), Rat(-1), Rat(0), Rat(1), Rat(1)>>
    /\ n_mono = <<<<1, 3>>, <<2, 3>>>>

AssignStep == d_pc = "loop" /\ d_idx' = d_idx + 1 /\ Len(result') = Len(result) + 1

\* the embedding assigned and the id it got
AssignedEmbedding == segments[d_idx].emb.v
AssignedId == result'[Len(result')].speaker.v

SimTo(mgr, i, e) == cosine_similarity(mgr[i].sum, e)

\* id is the speaker of mgr with the highest similarity to e, the lowest
\* such id
IsBestExisting(mgr, e, id) ==
    /\ id + 1 \in 1..Len(mgr)
    /\ \A j \in 1..Len(mgr) : ~SimLess(SimTo(mgr, id + 1, e), SimTo(mgr, j, e))
    /\ \A j \in 1..id : SimLess(SimTo(mgr, j, e), SimTo(mgr, id + 1, e))

\* C21 as stated: whenever the registry holds max_speakers speakers the
\* assignment returns the existing speaker with the highest similarity,
\* the lowest id among equals.
C21_AtCapBestExisting ==
    [][(AssignStep /\ Len(manager) = max_speakers) =>
          IsBestExisting(manager, AssignedEmbedding, AssignedId)]_vars

\* C21 amended: the same for max_speakers >= 1, whatever the threshold; no
\* speaker is created by the step.
C21_AtCapBestExistingNonZeroCap ==
    [][(AssignStep /\ Len(manager) = max_speakers /\ max_speakers >= 1) =>
          /\ IsBestExisting(manager, AssignedEmbedding, AssignedId)
          /\ Len(manager') = Len(manager)]_vars

\* a full registry of two; the third region ties between both speakers and
\* is below the threshold, the fourth is closest to speaker 1
C21_Witness ==
    /\ max_speakers = 2
    /\ threshold = <<3, 2>>
    /\ Len(result) = 4
    /\ [i \in 1..4 |-> segments[i].emb.v] = <<<<1, 0>>, <<0, 1>>, <<1, 1>>, <<0, 1>>>>
    /\ [i \in 1..4 |-> result[i].speaker.v] = <<0, 1, 0, 1>>

\* the ids of res in the order of their first appearance are 0, 1, 2, ...
DenseIds(res) ==
    /\ SpeakerIds(res) = 0..(Cardinality(SpeakerIds(res)) - 1)
    /\ \A i \in 1..Len(res) :
          res[i].speaker.v <= Cardinality({res[j].speaker.v : j \in 1..(i - 1)})

\* C22: below the cap the assignment returns the best existing speaker when
\* its similarity is at least the threshold, and otherwise creates a speaker
\* whose id is the size of the registry and whose centroid is the embedding;
\* the first region is speaker 0 and the ids appear in the order 0, 1, 2, ...
C22_BelowCapMatchOrCreate ==
    /\ [][(AssignStep /\ Len(manager) < max_speakers) =>
            IF \E j \in 1..Len(manager) :
                   ~SimLess(SimTo(manager, j, AssignedEmbedding), ThresholdSim(threshold))
            THEN /\ IsBestExisting(manager, AssignedEmbedding, AssignedId)
                 /\ Len(manager') = Len(manager)
            ELSE /\ AssignedId = Len(manager)
                 /\ manager' = Append(manager, [sum |-> AssignedEmbedding, n |-> 1])]_vars
    /\ [](Len(result) >= 1 => result[1].speaker = Some(0))
    /\ [](DenseIds(result))

\* below a cap of three: two speakers created, the third region matched
C22_Witness ==
    /\ max_speakers = 3
    /\ threshold = <<1, 2>>
    /\ Len(result) = 3
    /\ [i \in 1..3 |-> segments[i].emb.v] = <<<<1, 0>>, <<0, 1>>, <<1, 1>>>>
    /\ [i \in 1..3 |-> result[i].speaker.v] = <<0, 1, 0>>
    /\ Len(manager) = 2

(***************************************************************************)
(* Progress of a run (Spec).                                               *)
(***************************************************************************)

\* the progress notifications of the transcribing stage: those with a counter
RECURSIVE Progress(_)
Progress(evs) ==
    IF evs = << >> THEN << >>
    ELSE IF evs[1].stage = "transcribing" /\ evs[1].current >= 1
         THEN <<evs[1]>> \o Progress(Tail(evs))
         ELSE Progress(Tail(evs))

\* C23: a run with N >= 1 regions emits one progress notification per region,
\* with total = N and current = 1, 2, ..., N in this order, and the
\* notification with current = i is emitted when the transcription of
\* region i has finished.
C23_ProgressAfterRegion ==
    /\ (p_pc = "done" /\ p_ret.ok /\ Len(raw_segments) >= 1) =>
           Progress(events) = [i \in 1..Len(raw_segments) |->
                                  Event("transcribing", i, Len(raw_segments))]
    /\ \A k \in 1..Len(Progress(events)) :
           Len(t_log) >= Progress(events)[k].current

(***************************************************************************)
(* Errored regions (SpecDiarize).                                          *)
(***************************************************************************)

\* the items the capability produced without an error, in its order
Kept == SelectSeq(seg_in.items, LAMBDA it : it.ok)

HasErrored == \E i \in 1..Len(seg_in.items) : ~seg_in.items[i].ok

\* C24: an errored region is discarded and does not fail the run: the run
\* returns what it returns on the same regions without the errored ones,
\* and when the extractor and the embeddings do not fail this is every
\* non-errored region, in the order of the capability, with a speaker.
C24_ErroredRegionDiscarded ==
    (d_pc = "done" /\ seg_in.ok /\ HasErrored) =>
        /\ d_ret = diarize_audio([ok |-> TRUE, items |-> Kept],
                                 extractor_ok, max_speakers, threshold)
        /\ (Kept = << >> \/ (extractor_ok /\ \A i \in 1..Len(Kept) : Kept[i].emb.ok)) =>
              /\ d_ret.ok
              /\ Len(d_ret.v) = Len(Kept)
              /\ \A k \in 1..Len(Kept) :
                    /\ d_ret.v[k].start_ms = Kept[k].start * 1000
                    /\ d_ret.v[k].end_ms = Kept[k].end * 1000
                    /\ d_ret.v[k].samples = Kept[k].len
                    /\ d_ret.v[k].speaker.some

\* an errored region between two regions that are returned
C24_Witness ==
    /\ d_pc = "done"
    /\ seg_in.ok
    /\ [i \in 1..Len(seg_in.items) |-> seg_in.items[i].ok] = <<TRUE, FALSE, TRUE>>
    /\ d_ret.ok
    /\ [k \in 1..Len(d_ret.v) |-> d_ret.v[k].start_ms] = <<0, 2000>>

\* C25: every source index the resampler computes is an index of its input:
\* the read of input[idx] never falls back to 0.0; only input[idx + 1] can
\* lie past the end.
C25_SourceIndexValid ==
    (n_pc \in {"mono", "done"} /\ n_rate # 16000) =>
        /\ \A i \in 0..(new_len(Len(n_mono), n_rate) - 1) :
              /\ get(n_mono, Floor(src_idx(i, n_rate))).some
              /\ Floor(src_idx(i, n_rate)) = (i * n_rate) \div 16000
              /\ Floor(src_idx(i, n_rate)) + 1 <= Len(n_mono)
        /\ n_pc = "done" => Len(n_out) = new_len(Len(n_mono), n_rate)

\* upsampling two samples to four: the last output reads input[1] and finds
\* no input[2]
C25_Witness ==
    /\ n_pc = "done"
    /\ n_channels = 1
    /\ n_rate = 8000
    /\ n_raw = <<Rat(1), Rat(-1)>>
    /\ n_out = <<Rat(1), Rat(0), Rat(-1), Rat(-1)>>
    /\ get(n_mono, Floor(src_idx(3, n_rate))).some
    /\ ~get(n_mono, Floor(src_idx(3, n_rate)) + 1).some

(***************************************************************************)
(* The output segments of a run (Spec).                                    *)
(***************************************************************************)

\* C26: every output segment has a text that is not empty and neither
\* begins nor ends with whitespace; there are at most as many output
\* segments as regions; a region with empty samples is never handed to the
\* transcription capability and is not in the output.
C26_OutputSegmentsTrimmed ==
    p_pc # "idle" =>
        /\ \A k \in 1..Len(diarized_segments) :
              LET text == diarized_segments[k].text
              IN  /\ text # << >>
                  /\ text[1] \notin Whitespace
                  /\ text[Len(text)] \notin Whitespace
        /\ Len(diarized_segments) <= Len(raw_segments)
        /\ \A i \in 1..Len(t_log) :
              raw_segments[i].samples = 0 => t_log[i].calls = << >>
        /\ \A i \in 1..Len(raw_segments) :
              raw_segments[i].samples = 0 =>
                  \A k \in 1..Len(diarized_segments) :
                      diarized_segments[k].start_ms # raw_segments[i].start_ms
        /\ p_pc \in {"saved", "done"} /\ raw_segments # << >> =>
              db_segments[EntryId] = diarized_segments

\* a region with empty samples followed by a region with text
C26_Witness ==
    /\ p_pc = "done"
    /\ p_ret.ok
    /\ Len(raw_segments) = 2
    /\ raw_segments[1].samples = 0
    /\ raw_segments[2].samples = CHUNK_SIZE + 1
    /\ t_log[1].calls = << >>
    /\ Len(t_log[2].calls) = 2
    /\ [k \in 1..Len(diarized_segments) |-> diarized_segments[k].start_ms] = <<1000>>
    /\ diarized_segments[1].text = <<"a", " ", "a">>

\* "done" was emitted
DoneEmitted == \E k \in 1..Len(events) : events[k].stage = "done"

\* C27: once a run that found at least one region has emitted done, the
\* segments stored for its entry are the output segments of the run, no
\* more and none twice, and the segments of the other entry are as before.
C27_StoredSegmentsAreOutput ==
    (p_pc # "idle" /\ DoneEmitted /\ raw_segments # << >>) =>
        /\ db_segments[EntryId] = diarized_segments
        /\ db_segments[OtherId] = <<OtherSegment>>
        /\ \A j, k \in 1..Len(db_segments[EntryId]) :
              j # k => db_segments[EntryId][j].start_ms # db_segments[EntryId][k].start_ms

\* two stored segments, neither of them the segment of an earlier run
C27_Witness ==
    /\ p_pc = "done"
    /\ DoneEmitted
    /\ Len(raw_segments) = 2
    /\ Len(db_segments[EntryId]) = 2
    /\ \A k \in 1..2 : db_segments[EntryId][k] # OldSegment
    /\ [k \in 1..2 |-> db_segments[EntryId][k].start_ms] = <<0, 1000>>

\* the labelled lines of stored segments, joined by newlines
TranscriptOf(segs) ==
    join([k \in 1..Len(segs) |-> flat_line(segs[k].speaker, segs[k].text)], <<"\n">>)

\* C28: after a successful transcribe_meeting run on an entry that only
\* transcribe_meeting runs have worked on, the stored transcript is the
\* newline-join of the labelled lines of the stored segments; a run that
\* finds no region leaves no stored segment behind.
C28_TranscriptMatchesSegments ==
    (/\ p_cmd = "transcribe_meeting"
     /\ p_in.prior \in {"none", "transcribe_meeting"}
     /\ p_pc = "done"
     /\ p_ret.ok) =>
        /\ db_entries[EntryId].transcription_text = TranscriptOf(db_segments[EntryId])
        /\ raw_segments = << >> => db_segments[EntryId] = << >>

(***************************************************************************)
(* Overlapping runs on one entry (SpecSave).                               *)
(***************************************************************************)

\* C29: when two runs on the same entry overlap, after both calls of
\* save_meeting_segments have returned the stored segments of the entry are
\* the output of one of the two runs.
C29_OverlappingSavesDoNotMix ==
    (\A r \in Runs : s_pc[r] = "done") =>
        \E r \in Runs : db_segments[EntryId] = s_out[r]

(***************************************************************************)
(* Cancellation of download_audio (SpecDownload).                          *)
(***************************************************************************)

\* C30: once the cancel flag is set the call does not return success,
\* whether the flag is seen at the next line or only after the process has
\* ended, with or without a failure status.
C30_CancelledDownloadFails ==
    (y_pc = "done" /\ y_cancel) => ~y_ret.ok

====
